---------------------------- MODULE Spec2Model ----------------------------
(***************************************************************************)
(* Model of the text buffer of yudjinn/fer-write: Row (src/src/row.rs) and *)
(* Document (src/src/document.rs).                                         *)
(*                                                                         *)
(* A text is a sequence of Unicode scalar values (Rust `char`), each named *)
(* by a string: "a" (U+0061), "1" (U+0031), "M" (U+0301 COMBINING ACUTE    *)
(* ACCENT, Grapheme_Extend), "SP" (U+0020), "CR" (U+000D), "LF" (U+000A),  *)
(* "TAB" (U+0009).  A file is a sequence of bytes (integers).  Option<T>   *)
(* is a sequence of length 0 (None) or 1 (Some).                           *)
(***************************************************************************)
EXTENDS Integers, Sequences, FiniteSets, TLC

VARIABLES rows, filename, dirty, disk, capacity, row, before, last, ret

vars == <<rows, filename, dirty, disk, capacity, row, before, last, ret>>

---------------------------------------------------------------------------
(* Bounds of the model.                                                    *)

\* a Document holds at most MaxRows rows
MaxRows == 2
\* a Document holds at most MaxChars scalar values after an ordinary insert
MaxChars == 2
\* a stand-alone Row holds at most RowMaxLen scalar values
RowMaxLen == 3
\* the file a load/search/save session starts from holds at most MaxFile
\* bytes
MaxFile == 4
\* the file system of an editing session holds at most EditCapacity bytes
\* of the file
EditCapacity == 1
\* a tab is inserted into a Document of at most TabRoom scalar values
TabRoom == 0

\* `for _ in 0..4` of Document::insert
TabWidth == 4

---------------------------------------------------------------------------
(* Generic helpers.                                                        *)

None == <<>>
Some(v) == <<v>>

Min(a, b) == IF a < b THEN a ELSE b

SetMin(S) == CHOOSE m \in S : \A n \in S : m <= n
SetMax(S) == CHOOSE m \in S : \A n \in S : m >= n

Range(s) == {s[i] : i \in 1..Len(s)}

RECURSIVE Concat(_)
\* String::collect of an iterator of string slices
Concat(ss) == IF ss = <<>> THEN <<>> ELSE Head(ss) \o Concat(Tail(ss))

\* Iterator::take(n) and Iterator::skip(n) on a sequence
Take(s, n) == SubSeq(s, 1, Min(n, Len(s)))
Skip(s, n) == IF n >= Len(s) THEN <<>> ELSE SubSeq(s, n + 1, Len(s))

\* all sequences over S of length at most n
SeqsUpTo(S, n) == UNION {[1..k -> S] : k \in 0..n}

---------------------------------------------------------------------------
(* UTF-8 and grapheme clusters (the std and unicode_segmentation calls).   *)

\* str::as_bytes of one scalar value
Utf8(c) ==
    CASE c = "a" -> <<97>>
      [] c = "1" -> <<49>>
      [] c = "M" -> <<204, 129>>
      [] c = "SP" -> <<32>>
      [] c = "CR" -> <<13>>
      [] c = "LF" -> <<10>>
      [] c = "TAB" -> <<9>>

RECURSIVE Bytes(_)
\* str::as_bytes
Bytes(s) == IF s = <<>> THEN <<>> ELSE Utf8(Head(s)) \o Bytes(Tail(s))

RECURSIVE Decode(_)
\* String::from_utf8 inside fs::read_to_string: Some(text), or None on
\* bytes that are not valid UTF-8
Decode(b) ==
    IF b = <<>> THEN Some(<<>>)
    ELSE LET two == Len(b) >= 2 /\ b[1] = 204 /\ b[2] = 129
             c == CASE two -> Some("M")
                    [] b[1] = 97 -> Some("a")
                    [] b[1] = 49 -> Some("1")
                    [] b[1] = 32 -> Some("SP")
                    [] b[1] = 13 -> Some("CR")
                    [] b[1] = 10 -> Some("LF")
                    [] b[1] = 9 -> Some("TAB")
                    [] OTHER -> None
             rest == IF c = None THEN None
                     ELSE Decode(Skip(b, IF two THEN 2 ELSE 1))
         IN  IF c = None \/ rest = None THEN None
             ELSE Some(<<c[1]>> \o rest[1])

IsExtend(c) == c = "M"
IsControl(c) == c \in {"CR", "LF", "TAB"}

\* UAX #29: is there a grapheme cluster boundary between c1 and c2
\* (GB3 CR x LF, GB4/GB5 break around controls, GB9 x Extend, GB999)
Break(c1, c2) ==
    IF c1 = "CR" /\ c2 = "LF" THEN FALSE
    ELSE IF IsControl(c1) \/ IsControl(c2) THEN TRUE
    ELSE ~IsExtend(c2)

\* number of scalar values of the first grapheme cluster of a non-empty s
ClusterLen(s) ==
    SetMin({i \in 1..Len(s) : i = Len(s) \/ Break(s[i], s[i + 1])})

RECURSIVE Graphemes(_)
\* UnicodeSegmentation::graphemes(true): the grapheme clusters of s
Graphemes(s) ==
    IF s = <<>> THEN <<>>
    ELSE LET n == ClusterLen(s)
         IN  <<SubSeq(s, 1, n)>> \o Graphemes(Skip(s, n))

\* UnicodeSegmentation::grapheme_indices(true): the byte offset of each
\* grapheme cluster of s
GraphemeIndices(s) ==
    LET gs == Graphemes(s)
    IN  [k \in 1..Len(gs) |-> Len(Bytes(Concat(Take(gs, k - 1))))]

\* str::find(&str): byte offset of the leftmost match
StrFind(hay, needle) ==
    LET hb == Bytes(hay)
        nb == Bytes(needle)
        hits == {i \in 0..(Len(hb) - Len(nb)) :
                     SubSeq(hb, i + 1, i + Len(nb)) = nb}
    IN  IF hits = {} THEN None ELSE Some(SetMin(hits))

\* str::rfind(&str): byte offset of the rightmost match
StrRFind(hay, needle) ==
    LET hb == Bytes(hay)
        nb == Bytes(needle)
        hits == {i \in 0..(Len(hb) - Len(nb)) :
                     SubSeq(hb, i + 1, i + Len(nb)) = nb}
    IN  IF hits = {} THEN None ELSE Some(SetMax(hits))

\* char::is_ascii_digit
IsAsciiDigit(c) == c = "1"

---------------------------------------------------------------------------
(* Row (src/src/row.rs).                                                   *)

\* struct Row
MkRow(s, h, n) == [string |-> s, highlighting |-> h, len |-> n]

\* Row::update_len
Row_update_len(r) == [r EXCEPT !.len = Len(Graphemes(r.string))]

\* #[derive(Default)] for Row
Row_default == MkRow(<<>>, <<>>, 0)

\* impl From<&str> for Row
Row_from(slice) == Row_update_len(MkRow(slice, <<>>, 0))

\* Row::len
Row_len(r) == r.len

\* Row::insert
Row_insert(r, at, c) ==
    IF at >= Row_len(r)
    THEN Row_update_len([r EXCEPT !.string = Append(r.string, c)])
    ELSE LET gs == Graphemes(r.string)
             result == Concat(Take(gs, at))
             remainder == Concat(Skip(gs, at))
         IN  Row_update_len([r EXCEPT !.string = Append(result, c) \o remainder])

\* Row::delete with `skip(at)` for `skip(at+1)`: nothing is removed
Row_delete_skip(r, at) ==
    IF at >= Row_len(r) THEN r
    ELSE LET gs == Graphemes(r.string)
             result == Concat(Take(gs, at))
             remainder == Concat(Skip(gs, at))
         IN  Row_update_len([r EXCEPT !.string = result \o remainder])

\* Row::delete
Row_delete(r, at) ==
    IF at >= Row_len(r) THEN r
    ELSE LET gs == Graphemes(r.string)
             result == Concat(Take(gs, at))
             remainder == Concat(Skip(gs, at + 1))
         IN  Row_update_len([r EXCEPT !.string = result \o remainder])

\* Row::append without its update_len call
Row_append_stale(r, new) == [r EXCEPT !.string = r.string \o new.string]

\* Row::append with the operands of format! swapped
Row_append_swapped(r, new) ==
    Row_update_len([r EXCEPT !.string = new.string \o r.string])

\* Row::append
Row_append(r, new) ==
    Row_update_len([r EXCEPT !.string = r.string \o new.string])

\* Row::split: the truncated row and the returned row
Row_split(r, at) ==
    LET gs == Graphemes(r.string)
        beginning == Concat(Take(gs, at))
        remainder == Concat(Skip(gs, at))
    IN  [self |-> Row_update_len([r EXCEPT !.string = beginning]),
         new |-> Row_from(remainder)]

\* Row::find
Row_find(r, query, at, direction) ==
    IF at > Row_len(r) \/ query = <<>> THEN None
    ELSE LET start == IF direction = "Forward" THEN at ELSE 0
             end == IF direction = "Forward" THEN r.len ELSE at
             substring == Concat(Take(Skip(Graphemes(r.string), start),
                                      end - start))
             matching_byte_index ==
                 IF direction = "Forward" THEN StrFind(substring, query)
                 ELSE StrRFind(substring, query)
             gi == GraphemeIndices(substring)
             hit == IF matching_byte_index = None THEN {}
                    ELSE {k \in 1..Len(gi) : gi[k] = matching_byte_index[1]}
         IN  IF hit = {} THEN None
             ELSE Some(start + (SetMin(hit) - 1))

RECURSIVE HighlightMatches(_, _, _)
\* the `while let Some(search_match)` loop of Row::highlight
HighlightMatches(r, word, search_index) ==
    LET search_match == Row_find(r, word, search_index, "Forward")
    IN  IF search_match = None THEN <<>>
        ELSE <<search_match[1]>> \o
             HighlightMatches(r, word,
                              search_match[1] + Len(Graphemes(word)))

RECURSIVE HighlightWalk(_, _, _, _, _)
\* the `while let Some(c) = chars.get(index)` loop of Row::highlight
HighlightWalk(chars, word, matches, index, highlighting) ==
    IF index >= Len(chars) THEN highlighting
    ELSE IF word # None /\ index \in Range(matches)
         THEN LET k == Len(Graphemes(word[1]))
              IN  HighlightWalk(chars, word, matches, index + k,
                                highlighting \o [i \in 1..k |-> "Search"])
         ELSE HighlightWalk(chars, word, matches, index + 1,
                  Append(highlighting,
                         IF IsAsciiDigit(chars[index + 1]) THEN "Number"
                         ELSE "None"))

\* Row::highlight
Row_highlight(r, word) ==
    LET matches == IF word = None THEN <<>>
                   ELSE HighlightMatches(r, word[1], 0)
    IN  [r EXCEPT !.highlighting =
             HighlightWalk(r.string, word, matches, 0, <<>>)]

\* Row::as_bytes
Row_as_bytes(r) == Bytes(r.string)

---------------------------------------------------------------------------
(* Document (src/src/document.rs).                                         *)

\* struct Position
Pos(x, y) == [x |-> x, y |-> y]

\* Document::len
Doc_len(rs) == Len(rs)

\* Vec::insert(index, element)
VecInsert(v, index, e) == Take(v, index) \o <<e>> \o Skip(v, index)

\* Vec::remove(index)
VecRemove(v, index) == Take(v, index) \o Skip(v, index + 1)

\* str::lines: split after every "\n", then strip one "\n" and, only
\* when a "\n" was stripped, one "\r" before it
RECURSIVE Lines(_)
Lines(s) ==
    IF s = <<>> THEN <<>>
    ELSE LET nl == {i \in 1..Len(s) : s[i] = "LF"}
         IN  IF nl = {} THEN <<s>>
             ELSE LET i == SetMin(nl)
                      line == SubSeq(s, 1, i - 1)
                      stripped == IF line # <<>> /\ line[Len(line)] = "CR"
                                  THEN SubSeq(line, 1, Len(line) - 1)
                                  ELSE line
                  IN  <<stripped>> \o Lines(Skip(s, i))

\* the rows Document::open builds from the file's contents
Doc_open(contents) ==
    LET ls == Lines(contents)
    IN  [i \in 1..Len(ls) |-> Row_highlight(Row_from(ls[i]), None)]

\* Document::highlight
Doc_highlight(rs, word) == [i \in 1..Len(rs) |-> Row_highlight(rs[i], word)]

RECURSIVE WriteCalls(_)
\* the buffers of the write_all calls of Document::save, in order
WriteCalls(rs) ==
    IF rs = <<>> THEN <<>>
    ELSE <<Row_as_bytes(Head(rs)), Utf8("LF")>> \o WriteCalls(Tail(rs))

\* the file Document::save leaves when every write_all succeeds
SavedBytes(rs) == Concat(WriteCalls(rs))

\* Document::insert_newline
Doc_insert_newline(rs, at) ==
    IF at.y > Doc_len(rs) THEN rs
    ELSE LET pushed == IF at.y = Doc_len(rs) THEN Append(rs, Row_default)
                       ELSE rs
             sp == Row_split(pushed[at.y + 1], at.x)
             current_row == Row_highlight(sp.self, None)
             new_row == Row_highlight(sp.new, None)
         IN  VecInsert([pushed EXCEPT ![at.y + 1] = current_row],
                       at.y + 1, new_row)

\* the `_` arm of the match in Document::insert
Doc_insert_char(rs, at, c) ==
    IF at.y = Doc_len(rs)
    THEN Append(rs, Row_highlight(Row_insert(Row_default, 0, c), None))
    ELSE IF at.y < Doc_len(rs)
         THEN [rs EXCEPT ![at.y + 1] =
                   Row_highlight(Row_insert(rs[at.y + 1], at.x, c), None)]
         ELSE rs

RECURSIVE InsertTimes(_, _, _, _)
\* the `for _ in 0..4` loop of the tab arm of Document::insert
InsertTimes(rs, at, c, n) ==
    IF n = 0 THEN rs
    ELSE InsertTimes(Doc_insert_char(rs, at, c), at, c, n - 1)

\* the branch of Document::insert_newline that runs
NewlineArm(rs, at) ==
    IF at.y > Doc_len(rs) THEN "ignored"
    ELSE IF at.y = Doc_len(rs) THEN "pushed" ELSE "split"

\* the branch of Document::insert that runs
InsertArm(rs, at, c) ==
    CASE c = "LF" -> "newline"
      [] c = "TAB" -> "tab"
      [] OTHER -> IF at.y = Doc_len(rs) THEN "pushed"
                  ELSE IF at.y < Doc_len(rs) THEN "row" ELSE "ignored"

\* Document::insert: the rows afterwards (dirty is set by the action)
Doc_insert(rs, at, c) ==
    CASE c = "LF" -> Doc_insert_newline(rs, at)
      [] c = "TAB" -> InsertTimes(rs, at, "SP", TabWidth)
      [] OTHER -> Doc_insert_char(rs, at, c)

\* the branch of Document::delete that runs.  With at.y > len,
\* rows.get_mut(at.y) is None and Option::unwrap panics.
DeleteArm(rs, at) ==
    LET len == Doc_len(rs)
    IN  IF at.y = len THEN "past_end"
        ELSE IF at.y > len THEN "unwrap_none"
        ELSE IF at.x = Row_len(rs[at.y + 1]) /\ at.y + 1 < len THEN "merge"
        ELSE "char"

\* Document::delete: the rows afterwards (dirty is set by the action); the
\* rows at the panic are the rows before the call
Doc_delete(rs, at) ==
    LET len == Doc_len(rs)
    IN  IF at.y = len THEN rs
        ELSE IF at.y > len THEN rs
        ELSE IF at.x = Row_len(rs[at.y + 1]) /\ at.y + 1 < len
        THEN LET next_row == rs[at.y + 2]
                 removed == VecRemove(rs, at.y + 1)
             IN  [removed EXCEPT ![at.y + 1] =
                     Row_highlight(Row_append(removed[at.y + 1], next_row),
                                   None)]
        ELSE [rs EXCEPT ![at.y + 1] =
                 Row_highlight(Row_delete(rs[at.y + 1], at.x), None)]

RECURSIVE FindLoop(_, _, _, _, _)
\* the `for _ in start..end` loop of Document::find, n iterations left
FindLoop(rs, query, position, direction, n) ==
    IF n <= 0 THEN None
    ELSE IF position.y < Len(rs)
    THEN LET found == Row_find(rs[position.y + 1], query, position.x,
                               direction)
         IN  IF found # None THEN Some(Pos(found[1], position.y))
             ELSE IF direction = "Forward"
             THEN FindLoop(rs, query, Pos(0, position.y + 1), direction,
                           n - 1)
             ELSE LET y == IF position.y = 0 THEN 0 ELSE position.y - 1
                  IN  FindLoop(rs, query, Pos(Row_len(rs[y + 1]), y),
                               direction, n - 1)
    ELSE None

\* Document::find
Doc_find(rs, query, at, direction) ==
    IF at.y >= Len(rs) THEN None
    ELSE LET start == IF direction = "Forward" THEN at.y ELSE 0
             end == IF direction = "Forward" THEN Len(rs) ELSE at.y + 1
         IN  FindLoop(rs, query, Pos(at.x, at.y), direction, end - start)

---------------------------------------------------------------------------
(* State machines.  rows, filename, dirty are the fields of the Document,  *)
(* disk the bytes of the file at its path, capacity the number of bytes   *)
(* the file system has room for, row a stand-alone Row; last records the   *)
(* last call, ret what it returned, before the text of the stand-alone Row *)
(* when the last call on it began.                                         *)

\* the path every Document of the model is opened from
Path == "f"

Origin == Pos(0, 0)

\* a call of a Document method: the branch of its code that ran (arm) and
\* how it ended (status: "ok", "err" or "panic")
DocCall(op, arm, status) == [op |-> op, arm |-> arm, status |-> status]

\* a call of Document::find or of a Row method, with its arguments
Call(op, at, c, word, dir) ==
    [op |-> op, at |-> at, c |-> c, word |-> word, dir |-> dir,
     status |-> "ok"]

\* scalar values a caller inserts into a Document, found in a file, and
\* inserts into a stand-alone Row
InsChars == {"a", "M", "LF", "TAB"}
FileChars == {"a", "M", "CR", "LF"}
RowChars == {"a", "1", "M"}

Directions == {"Forward", "Backward"}

\* search words of Document::highlight and of Row::highlight
DocWords == {None, Some(<<"a">>)}
RowWords == {None, Some(<<>>), Some(<<"a">>), Some(<<"1", "a">>),
             Some(<<"a", "M">>)}

\* queries of Document::find and Row::find
Queries == SeqsUpTo({"a", "M"}, 2)

RECURSIVE TotalChars(_)
TotalChars(rs) ==
    IF rs = <<>> THEN 0 ELSE Len(Head(rs).string) + TotalChars(Tail(rs))

\* the positions a caller passes: in every row, at its end and beyond it,
\* and in the two rows after the last
Positions(rs) ==
    UNION {{Pos(x, y) : x \in 0..(IF y < Len(rs)
                                  THEN Len(rs[y + 1].string) + 1 ELSE 1)} :
           y \in 0..(Len(rs) + 1)}

Running == last.status # "panic"

InitDoc ==
    /\ rows = <<>>
    /\ filename = None
    /\ dirty = FALSE
    /\ ret = None

InitRow ==
    /\ row = Row_default
    /\ before = <<>>

\* Document::default() beside an empty file
Init ==
    /\ InitDoc
    /\ InitRow
    /\ disk = <<>>
    /\ capacity = EditCapacity
    /\ last = DocCall("default", "", "ok")

\* Document::default() beside a file of any contents
InitFile ==
    /\ InitDoc
    /\ InitRow
    /\ disk \in {Bytes(t) : t \in {u \in SeqsUpTo(FileChars, MaxFile) :
                                      Len(Bytes(u)) <= MaxFile}}
    /\ capacity = MaxFile + 1
    /\ last = DocCall("default", "", "ok")

\* Row::from(text) for any text
InitRows ==
    /\ InitDoc
    /\ disk = <<>>
    /\ capacity = 0
    /\ before = <<>>
    /\ \E t \in SeqsUpTo(RowChars, RowMaxLen) :
          /\ row = Row_from(t)
          /\ last = Call("from", 0, "", Some(t), "")

RowVars == <<row, before>>
EnvVars == <<disk, capacity>>
DocVars == <<rows, filename, dirty>>

\* Document::open returns Ok
OpenOk ==
    /\ Running
    /\ Decode(disk) # None
    /\ rows' = Doc_open(Decode(disk)[1])
    /\ filename' = Some(Path)
    /\ dirty' = FALSE
    /\ last' = DocCall("open", "", "ok")
    /\ ret' = None
    /\ UNCHANGED <<EnvVars, RowVars>>

\* Document::open returns Err: fs::read_to_string failed, on an I/O error
\* or on bytes that are not UTF-8
OpenErr ==
    /\ Running
    /\ last' = DocCall("open", "", "err")
    /\ ret' = None
    /\ UNCHANGED <<DocVars, EnvVars, RowVars>>

\* Document::save returns Ok
SaveOk ==
    /\ Running
    /\ filename # None => Len(SavedBytes(rows)) <= capacity
    /\ disk' = IF filename = None THEN disk ELSE SavedBytes(rows)
    /\ dirty' = FALSE
    /\ last' = DocCall("save",
                       IF filename = None THEN "no_path" ELSE "written", "ok")
    /\ ret' = None
    /\ UNCHANGED <<rows, filename, capacity, RowVars>>

\* Document::save returns Err: File::create failed (the file is as it was)
\* or a write_all failed (the file holds what was written before it)
SaveErr ==
    /\ Running
    /\ filename # None
    /\ \E created \in BOOLEAN :
          /\ disk' \in IF created
                       THEN {w \in {Concat(Take(WriteCalls(rows), n)) :
                                        n \in 0..(Len(WriteCalls(rows)) - 1)} :
                                 Len(w) <= capacity}
                       ELSE {disk}
          /\ last' = DocCall("save",
                             IF created THEN "write_all" ELSE "create", "err")
    /\ ret' = None
    /\ UNCHANGED <<DocVars, capacity, RowVars>>

\* room for the rows a newline at `at` adds: the row insert_newline
\* inserts and, with at.y = len, the row it pushes
RoomForNewline(at) ==
    \/ at.y > Len(rows)
    \/ Len(rows) + (IF at.y = Len(rows) THEN 2 ELSE 1) <= MaxRows

\* Document::insert_newline
InsertNewline(at) ==
    /\ Running
    /\ RoomForNewline(at)
    /\ rows' = Doc_insert_newline(rows, at)
    /\ last' = DocCall("insert_newline", NewlineArm(rows, at), "ok")
    /\ ret' = None
    /\ UNCHANGED <<filename, dirty, EnvVars, RowVars>>

\* Document::insert
Insert(at, c) ==
    /\ Running
    /\ CASE c = "LF" -> RoomForNewline(at)
         [] c = "TAB" -> TotalChars(rows) <= TabRoom
                         /\ (at.y = Len(rows) => Len(rows) < MaxRows)
         [] OTHER -> TotalChars(rows) < MaxChars
                     /\ (at.y = Len(rows) => Len(rows) < MaxRows)
    /\ rows' = Doc_insert(rows, at, c)
    /\ dirty' = TRUE
    /\ last' = DocCall("insert", InsertArm(rows, at, c), "ok")
    /\ ret' = None
    /\ UNCHANGED <<filename, EnvVars, RowVars>>

\* Document::delete without `self.dirty = true`
Delete_clean(at) ==
    /\ Running
    /\ rows' = Doc_delete(rows, at)
    /\ last' = DocCall("delete", DeleteArm(rows, at),
                       IF DeleteArm(rows, at) = "unwrap_none"
                       THEN "panic" ELSE "ok")
    /\ ret' = None
    /\ UNCHANGED <<filename, dirty, EnvVars, RowVars>>

\* Document::delete
Delete(at) ==
    /\ Running
    /\ rows' = Doc_delete(rows, at)
    /\ dirty' = TRUE
    /\ last' = DocCall("delete", DeleteArm(rows, at),
                       IF DeleteArm(rows, at) = "unwrap_none"
                       THEN "panic" ELSE "ok")
    /\ ret' = None
    /\ UNCHANGED <<filename, EnvVars, RowVars>>

\* Document::highlight
Highlight(word) ==
    /\ Running
    /\ rows' = Doc_highlight(rows, word)
    /\ last' = DocCall("highlight",
                       IF word = None THEN "none" ELSE "word", "ok")
    /\ ret' = None
    /\ UNCHANGED <<filename, dirty, EnvVars, RowVars>>

\* Document::find
Find(query, at, direction) ==
    /\ Running
    /\ ret' = Doc_find(rows, query, at, direction)
    /\ last' = Call("find", at, "", Some(query), direction)
    /\ UNCHANGED <<DocVars, EnvVars, RowVars>>

\* an editing session: a new Document, edited, highlighted, saved, reopened
Next ==
    \/ OpenOk
    \/ OpenErr
    \/ SaveOk
    \/ SaveErr
    \/ \E at \in Positions(rows) : InsertNewline(at)
    \/ \E at \in Positions(rows) : \E c \in InsChars : Insert(at, c)
    \/ \E at \in Positions(rows) : Delete(at)
    \/ \E word \in DocWords : Highlight(word)

Spec == Init /\ [][Next]_vars

\* the edits of a session, without a load or a save
NextEdit ==
    \/ \E at \in Positions(rows) : InsertNewline(at)
    \/ \E at \in Positions(rows) : \E c \in InsChars : Insert(at, c)
    \/ \E at \in Positions(rows) : Delete(at)
    \/ \E word \in DocWords : Highlight(word)

SpecEdit == Init /\ [][NextEdit]_vars

\* a session that loads a file, searches it and saves it, without an edit
NextFile ==
    \/ OpenOk
    \/ OpenErr
    \/ SaveOk
    \/ SaveErr
    \/ \E q \in Queries : \E at \in Positions(rows) : \E d \in Directions :
          Find(q, at, d)

SpecFile == InitFile /\ [][NextFile]_vars

\* the grapheme indexes a caller passes to a Row: inside, at the end of
\* and beyond its text
Indexes(r) == 0..(Len(r.string) + 1)

\* Row::insert on the stand-alone Row
RowInsert(at, c) ==
    /\ Len(row.string) < RowMaxLen
    /\ row' = Row_insert(row, at, c)
    /\ before' = row.string
    /\ last' = Call("insert", at, c, None, "")
    /\ ret' = None
    /\ UNCHANGED <<DocVars, EnvVars>>

\* Row::delete on the stand-alone Row
RowDelete(at) ==
    /\ row' = Row_delete(row, at)
    /\ before' = row.string
    /\ last' = Call("delete", at, "", None, "")
    /\ ret' = None
    /\ UNCHANGED <<DocVars, EnvVars>>

\* Row::append of Row::from(t) to the stand-alone Row
RowAppend(t) ==
    /\ Len(row.string) + Len(t) <= RowMaxLen
    /\ row' = Row_append(row, Row_from(t))
    /\ before' = row.string
    /\ last' = Call("append", 0, "", Some(t), "")
    /\ ret' = None
    /\ UNCHANGED <<DocVars, EnvVars>>

\* Row::split on the stand-alone Row; ret is the Row it returns
RowSplit(at) ==
    /\ row' = Row_split(row, at).self
    /\ before' = row.string
    /\ last' = Call("split", at, "", None, "")
    /\ ret' = Some(Row_split(row, at).new)
    /\ UNCHANGED <<DocVars, EnvVars>>

\* Row::highlight on the stand-alone Row
RowHighlight(word) ==
    /\ row' = Row_highlight(row, word)
    /\ before' = row.string
    /\ last' = Call("highlight", 0, "", word, "")
    /\ ret' = None
    /\ UNCHANGED <<DocVars, EnvVars>>

\* the calls a caller makes on one Row
NextRow ==
    \/ \E at \in Indexes(row) : \E c \in RowChars : RowInsert(at, c)
    \/ \E at \in Indexes(row) : RowDelete(at)
    \/ \E t \in SeqsUpTo(RowChars, 2) : RowAppend(t)
    \/ \E at \in Indexes(row) : RowSplit(at)
    \/ \E word \in RowWords : RowHighlight(word)

SpecRow == InitRows /\ [][NextRow]_vars

---------------------------------------------------------------------------
(* What the claims say.                                                    *)

\* the texts of the lines of a Buffer
Texts(rs) == [i \in 1..Len(rs) |-> rs[i].string]

\* the number of grapheme clusters of a text
GraphemeCount(s) == Len(Graphemes(s))

\* a sequence without its element at 0-based index x (itself when there is
\* no such element)
Without(s, x) ==
    IF x >= Len(s) THEN s
    ELSE [i \in 1..(Len(s) - 1) |-> IF i <= x THEN s[i] ELSE s[i + 1]]

\* a sequence with e put at 0-based index x
With(s, x, e) ==
    [i \in 1..(Len(s) + 1) |->
        IF i <= x THEN s[i] ELSE IF i = x + 1 THEN e ELSE s[i - 1]]

IsPrefix(p, s) == Len(p) <= Len(s) /\ SubSeq(s, 1, Len(p)) = p

\* the cached length of a Row is the number of clusters of its text
LenCached(r) == r.len = GraphemeCount(r.string)

(* C10: the cached grapheme_length of every line equals the number of      *)
(* grapheme clusters of its text: of the stand-alone Line after            *)
(* construction, insert, delete, append and split, of the Line split       *)
(* returns, and of every line of the Buffer.                               *)
C10_LengthCached ==
    /\ LenCached(row)
    /\ (last.op = "split" => LenCached(ret[1]))
    /\ \A i \in 1..Len(rows) : LenCached(rows[i])

\* an append that joins a combining mark to the last cluster: two scalar
\* values, one grapheme cluster
C10_Witness ==
    /\ last.op = "append"
    /\ before = <<"a">>
    /\ last.word = Some(<<"M">>)
    /\ row.string = <<"a", "M">>
    /\ row.len = 1

(* C6 as claimed: Line.insert(at, c) at a valid position (0 <= at <=        *)
(* grapheme length) followed by Line.delete(at) restores the line text,    *)
(* for every text and every character c.                                   *)
C6_RoundTrip ==
    [][(/\ last.op = "insert"
        /\ last.at <= GraphemeCount(before)
        /\ last'.op = "delete"
        /\ last'.at = last.at) => row'.string = before]_vars

(* C6 as amended: Line.insert(at, c) at a valid position followed by       *)
(* Line.delete(at) restores the line text whenever c became a grapheme     *)
(* cluster of its own at index at, that is, the clusters of the text after *)
(* the insert are those of the original text with c put at index at.       *)
C6_RoundTripOwnCluster ==
    [][(/\ last.op = "insert"
        /\ last.at <= GraphemeCount(before)
        /\ Graphemes(row.string) = With(Graphemes(before), last.at, <<last.c>>)
        /\ last'.op = "delete"
        /\ last'.at = last.at) => row'.string = before]_vars

\* "1" inserted at the end of "aM" (one cluster) is a cluster of its own;
\* the delete at the same index is the call the property follows it with
C6_Witness ==
    /\ last.op = "insert"
    /\ last.at = 1
    /\ last.c = "1"
    /\ before = <<"a", "M">>
    /\ row.string = <<"a", "M", "1">>
    /\ Graphemes(row.string) = With(Graphemes(before), 1, <<"1">>)

\* wg occurs in gs at 0-based index x
OccursAt(gs, wg, x) ==
    x + Len(wg) <= Len(gs) /\ SubSeq(gs, x + 1, x + Len(wg)) = wg

RECURSIVE OccurrenceStarts(_, _, _)
OccurrenceStarts(gs, wg, from) ==
    LET next == {x \in from..Len(gs) : OccursAt(gs, wg, x)}
    IN  IF wg = <<>> \/ next = {} THEN {}
        ELSE {SetMin(next)} \cup
             OccurrenceStarts(gs, wg, SetMin(next) + Len(wg))

ClaimedHighlight(text, word) ==
    LET gs == Graphemes(text)
        wg == IF word = None THEN <<>> ELSE Graphemes(word[1])
        starts == OccurrenceStarts(gs, wg, 0)
        covered == {i \in 0..(Len(gs) - 1) :
                        \E x \in starts : x <= i /\ i < x + Len(wg)}
    IN  [i \in 1..Len(gs) |->
            IF i - 1 \in covered THEN "Search"
            ELSE IF IsAsciiDigit(gs[i][1]) THEN "Number" ELSE "None"]

(* C9: Line.highlight(word) with a non-empty word classifies as Search     *)
(* exactly the positions covered by the leftmost-first, non-overlapping    *)
(* occurrences of word, every other position holding an ASCII digit as     *)
(* Number and every remaining position as None; with no word or an empty   *)
(* word no position is Search.  Positions are grapheme clusters.           *)
C9_Highlight ==
    last.op = "highlight" =>
        row.highlighting = ClaimedHighlight(row.string, last.word)

(* C1: Buffer.insert, Buffer.delete, Buffer.insert_newline and Buffer.find  *)
(* are total: for every Position, also one beyond the lines, the call      *)
(* completes without panicking.                                            *)
C1_Total == last.status # "panic"

(* C2: after any sequence of Buffer operations every line has a            *)
(* highlighting array whose length equals the line's grapheme-cluster      *)
(* count, also for graphemes of more than one scalar value.                *)
C2_HighlightLength ==
    \A i \in 1..Len(rows) :
        Len(rows[i].highlighting) = GraphemeCount(rows[i].string)

(* C3: modified is false after construction and after a load, true after   *)
(* every Buffer.insert and Buffer.delete, and once true it stays true      *)
(* until a save returns success (a load builds a new Buffer); a save that  *)
(* fails leaves modified and the lines unchanged, and a save that          *)
(* succeeds, with or without a backing path, clears it.                    *)
C3_Modified ==
    /\ ~dirty
    /\ [][/\ (last'.op = "open" /\ last'.status = "ok") => ~dirty'
          /\ last'.op \in {"insert", "delete"} => dirty'
          /\ (/\ dirty
              /\ ~(last'.op = "save" /\ last'.status = "ok")
              /\ ~(last'.op = "open" /\ last'.status = "ok")) => dirty'
          /\ (last'.op = "save" /\ last'.status = "err") =>
                 (dirty' = dirty /\ rows' = rows)
          /\ (last'.op = "save" /\ last'.status = "ok") =>
                 (~dirty' /\ rows' = rows)]_vars

\* a failed save of a modified Buffer whose write_all changed the file
C3_Witness ==
    /\ last = DocCall("save", "write_all", "err")
    /\ dirty
    /\ rows # <<>>

\* what insert_newline(at) is to make of the lines rs
NewlineEffect(rs, rs2, at) ==
    IF at.y > Len(rs) THEN rs2 = rs
    ELSE /\ Len(rs2) = Len(rs) + 1
         /\ Concat(Texts(rs2)) = Concat(Texts(rs))
         /\ IF at.y = Len(rs) THEN Texts(rs2) = Append(Texts(rs), <<>>)
            ELSE LET gs == Graphemes(rs[at.y + 1].string)
                 IN  Texts(rs2) =
                         SubSeq(Texts(rs), 1, at.y) \o
                         <<Concat(Take(gs, at.x)), Concat(Skip(gs, at.x))>> \o
                         SubSeq(Texts(rs), at.y + 2, Len(rs))

(* C4: for at.y <= line count, insert_newline(at) adds exactly one line    *)
(* and keeps the concatenation of the line texts: with at.y = line count   *)
(* it appends one empty Line, with at.y < line count it cuts line at.y     *)
(* after its first at.x graphemes and puts the rest at at.y + 1; with      *)
(* at.y > line count nothing changes.                                      *)
C4_InsertNewline ==
    [][last'.op = "insert_newline" =>
          \A at \in Positions(rows) :
              InsertNewline(at) => NewlineEffect(rows, rows', at)]_vars

\* what delete(at) is to make of the lines rs
DeleteEffect(rs, rs2, at) ==
    IF /\ at.y + 1 < Len(rs)
       /\ at.x = GraphemeCount(rs[at.y + 1].string)
    THEN /\ Len(rs2) = Len(rs) - 1
         /\ Texts(rs2) =
                SubSeq(Texts(rs), 1, at.y) \o
                <<rs[at.y + 1].string \o rs[at.y + 2].string>> \o
                SubSeq(Texts(rs), at.y + 3, Len(rs))
    ELSE /\ Len(rs2) = Len(rs)
         /\ \A i \in 1..Len(rs) : i # at.y + 1 => rs2[i].string = rs[i].string
         /\ at.y < Len(rs) =>
                rs2[at.y + 1].string \in
                    {rs[at.y + 1].string,
                     Concat(Without(Graphemes(rs[at.y + 1].string), at.x))}

C7_RoundTrip ==
    [][(/\ last = DocCall("save", "written", "ok")
        /\ last' = DocCall("open", "", "ok")) =>
           Texts(rows') = Texts(rows)]_vars

\* the Positions where query starts at a grapheme of a line
Occurrences(rs, query) ==
    {p \in UNION {{Pos(x, y) : x \in 0..GraphemeCount(rs[y + 1].string)} :
                  y \in 0..(Len(rs) - 1)} :
        IsPrefix(query, Concat(Skip(Graphemes(rs[p.y + 1].string), p.x)))}

\* the occurrence at p ends at or before grapheme x of its line
EndsBy(rs, query, p, x) ==
    /\ p.x <= x
    /\ IsPrefix(query, Concat(Take(Skip(Graphemes(rs[p.y + 1].string), p.x),
                                   x - p.x)))

ClaimedFind(rs, query, at, direction) ==
    LET occ == Occurrences(rs, query)
        cand == IF direction = "Forward"
                THEN {p \in occ : p.y > at.y \/ (p.y = at.y /\ p.x >= at.x)}
                ELSE {p \in occ : \/ p.y < at.y
                                  \/ p.y = at.y /\ EndsBy(rs, query, p, at.x)}
        first == CHOOSE p \in cand : \A q \in cand :
                     p.y < q.y \/ (p.y = q.y /\ p.x <= q.x)
        final == CHOOSE p \in cand : \A q \in cand :
                     p.y > q.y \/ (p.y = q.y /\ p.x >= q.x)
    IN  IF cand = {} THEN None
        ELSE IF direction = "Forward" THEN Some(first) ELSE Some(final)

(* C8: for a start Position at with at.y < line count and at.x <= grapheme *)
(* length of line at.y, Buffer.find(query, at, Forward) returns the first  *)
(* occurrence of query at or after at, Buffer.find(query, at, Backward)    *)
(* the last occurrence lying wholly before at, and none exactly when there *)
(* is no such occurrence.  An occurrence at (x, y) is query starting at    *)
(* grapheme x of line y.                                                   *)
C8_Find ==
    (/\ last.op = "find"
     /\ last.word # Some(<<>>)
     /\ last.at.y < Len(rows)
     /\ last.at.x <= GraphemeCount(rows[last.at.y + 1].string)) =>
        ret = ClaimedFind(rows, last.word[1], last.at, last.dir)

=============================================================================
